---- MODULE Spec2Model ----
(***************************************************************************)
(* A model of localgraph/utils.py: restrict_to_local_graph (multi-source   *)
(* BFS over an adjacency matrix followed by the construction of the edge   *)
(* dictionary Q) and node_cluster (BFS over the undirected graph built     *)
(* from the keys of an edge dictionary).                                   *)
(*                                                                         *)
(* Python values are represented as follows.                               *)
(*   - a dict is a function whose DOMAIN is the set of its keys;           *)
(*   - a list or deque is a sequence;                                      *)
(*   - an optional integer (max_radius of node_cluster) is a record        *)
(*     [isNone, val];                                                      *)
(*   - anchor_node, an int or a str, is a record [byName, idx, name];      *)
(*   - feature_names is one of the strings "None", "list", "dict", whose   *)
(*     contents are FeatureList and FeatureDict;                           *)
(*   - an exception leaving a call is recorded by its class name in        *)
(*     `raised`, with pc = "raised".                                       *)
(***************************************************************************)
EXTENDS Integers, Sequences, FiniteSets, TLC

\* Bounds of the model.
NumNodes == 3
MaxRadius == 2
MaxTargets == 2

VARIABLES
    A,                \* restrict_to_local_graph: the p x p adjacency matrix
    target_features,  \* both functions: the target indices, [isInt, int, list]
    max_radius,       \* both functions: [isNone, val]
    dist,             \* restrict_to_local_graph: dict node -> distance
    frontier,         \* restrict_to_local_graph: deque of nodes
    Q,                \* the edge dictionary: output of restrict_to_local_graph,
                      \* input of node_cluster
    caller_anchor,    \* node_cluster: the anchor as the caller passes it,
                      \* [byName, idx, name]
    anchor_node,      \* node_cluster: the parameter, rebound when resolved
    feature_names,    \* node_cluster: "None", "list" or "dict"
    remove_targets,   \* node_cluster: flag
    adj,              \* node_cluster: defaultdict(set)
    visited,          \* node_cluster: set of nodes
    component,        \* node_cluster: set of nodes
    queue,            \* node_cluster: deque of <<node, depth>>
    pc,               \* position of the running call
    raised,           \* class of the exception that left the call, or ""
    results           \* node_cluster: what the call returned, per remove_targets

vars == <<A, target_features, max_radius, dist, frontier, Q, caller_anchor,
          anchor_node, feature_names, remove_targets, adj, visited, component, queue,
          pc, raised, results>>

localVars == <<A, dist, frontier>>
clusterVars == <<caller_anchor, anchor_node, feature_names, remove_targets, adj, visited,
                 component, queue, results>>

----------------------------------------------------------------------------
\* Values and input domains

Nodes == 0 .. (NumNodes - 1)

Min(S) == CHOOSE x \in S : \A y \in S : x <= y

RECURSIVE SortedSeq(_)
\* The elements of a finite set of integers in ascending order.
SortedSeq(S) == IF S = {} THEN <<>> ELSE <<Min(S)>> \o SortedSeq(S \ {Min(S)})

Range(s) == {s[k] : k \in DOMAIN s}

SeqsUpTo(S, n) == UNION {[1 .. k -> S] : k \in 0 .. n}

EmptyDict == [k \in {} |-> 0]

NoRadius == [isNone |-> TRUE, val |-> 0]
Radius(r) == [isNone |-> FALSE, val |-> r]

IntArg(t) == [isInt |-> TRUE, int |-> t, list |-> <<>>]
ListArg(s) == [isInt |-> FALSE, int |-> 0, list |-> s]

ByIndex(i) == [byName |-> FALSE, idx |-> i, name |-> ""]
ByName(s) == [byName |-> TRUE, idx |-> 0, name |-> s]

NoResult == [returned |-> FALSE, value |-> {}]
Returned(S) == [returned |-> TRUE, value |-> S]

UPairs == {e \in Nodes \X Nodes : e[1] < e[2]}

\* Undirected graphs on Nodes, as sets of ordered pairs closed under reversal.
SymEdgeSets == {E \cup {<<e[2], e[1]>> : e \in E} : E \in SUBSET UPairs}

\* An undirected graph plus at most one further entry, which may be a
\* diagonal entry or one direction of an absent edge.
EdgeSets == SymEdgeSets \cup
            {E \cup {x} : E \in SymEdgeSets, x \in Nodes \X Nodes}

MatrixOf(E) == [i \in Nodes |-> [j \in Nodes |-> IF <<i, j>> \in E THEN 1 ELSE 0]]

EntriesOf(M) == {e \in Nodes \X Nodes : M[e[1]][e[2]] # 0}

IsSymmetric(M) == \A i, j \in Nodes : M[i][j] = M[j][i]

\* Indices a caller may pass: in range, negative within -p..-1, and out of
\* range on either side.
OutOfRange == {NumNodes, -(NumNodes + 1)}
Wrapping == {-1}

----------------------------------------------------------------------------
\* restrict_to_local_graph

\* A.shape[0]
n == NumNodes

\* numpy row indexing A[u]: -n <= u < n is accepted, negative u counts from
\* the end; anything else raises IndexError.
RowInRange(u) == u >= -n /\ u < n
Row(M, u) == IF u < 0 THEN M[u + n] ELSE M[u]

\* np.nonzero(row)[0]: the indices of the nonzero entries, ascending.
NonZero(row) == SortedSeq({j \in DOMAIN row : row[j] # 0})

\* dist = {t: 0 for t in target_features}
InitDist(ts) == [t \in Range(ts) |-> 0]

RECURSIVE VisitAlways(_, _, _, _)
\* Visit without the test `v not in dist`: every neighbour is relabelled and
\* appended.
VisitAlways(d, f, u, nz) ==
    IF nz = <<>> THEN [dist |-> d, frontier |-> f]
    ELSE LET v == Head(nz) IN
         VisitAlways([x \in DOMAIN d \cup {v} |-> IF x = v THEN d[u] + 1 ELSE d[x]],
                     Append(f, v), u, Tail(nz))

RECURSIVE Visit(_, _, _, _)
\* The for loop of the distance pass over the neighbours nz of u: a
\* neighbour without a distance gets dist[u] + 1 and is appended.
Visit(d, f, u, nz) ==
    IF nz = <<>> THEN [dist |-> d, frontier |-> f]
    ELSE LET v == Head(nz) IN
         IF v \notin DOMAIN d
         THEN Visit(d @@ (v :> (d[u] + 1)), Append(f, v), u, Tail(nz))
         ELSE Visit(d, f, u, Tail(nz))

\* Pruned with > for >=: nodes at the radius are still expanded.
PrunedLate(d, u, r) == d[u] > r

\* Whether the popped node u is left unexpanded.
Pruned(d, u, r) == d[u] >= r

\* Retained without the exclusion of the outermost shell.
RetainedAlways(d, i, j, r) == TRUE

\* Whether the edge i, j is written to Q.
Retained(d, i, j, r) == ~(d[i] = r /\ d[j] = r)

\* EdgeKeys without the line `Q[(j,i)] = 1`.
EdgeKeysOneWay(M, d, r) ==
    {e \in (0 .. (n - 1)) \X (0 .. (n - 1)) :
        /\ e[1] \in DOMAIN d
        /\ M[e[1]][e[2]] # 0
        /\ ~(e[2] <= e[1])
        /\ e[2] \in DOMAIN d
        /\ Retained(d, e[1], e[2], r)}

\* The keys written by the loop that builds Q.
EdgeKeys(M, d, r) ==
    UNION {{<<i, j>>, <<j, i>>} :
             <<i, j>> \in {e \in (0 .. (n - 1)) \X (0 .. (n - 1)) :
                              /\ e[1] \in DOMAIN d
                              /\ M[e[1]][e[2]] # 0
                              /\ ~(e[2] <= e[1])
                              /\ e[2] \in DOMAIN d
                              /\ Retained(d, e[1], e[2], r)}}

BuildQ(M, d, r) == [k \in EdgeKeys(M, d, r) |-> 1]

\* Entry: the target argument is normalised to a list, dist and frontier
\* are initialised.
LocalCall ==
    /\ pc = "local_idle"
    /\ LET ts == IF target_features.isInt
                 THEN <<target_features.int>>
                 ELSE target_features.list
       IN /\ target_features' = ListArg(ts)
          /\ dist' = InitDist(ts)
          /\ frontier' = ts
    /\ pc' = "local_bfs"
    /\ UNCHANGED <<A, max_radius, Q, raised, clusterVars>>

\* One iteration of the while loop of the distance pass.
LocalPop ==
    /\ pc = "local_bfs"
    /\ frontier # <<>>
    /\ LET u == Head(frontier) IN
       IF Pruned(dist, u, max_radius.val)
       THEN /\ frontier' = Tail(frontier)
            /\ UNCHANGED <<dist, pc, raised>>
       ELSE IF ~RowInRange(u)
       THEN /\ frontier' = Tail(frontier)
            /\ pc' = "raised"
            /\ raised' = "IndexError"
            /\ UNCHANGED dist
       ELSE LET res == Visit(dist, Tail(frontier), u, NonZero(Row(A, u))) IN
            /\ dist' = res.dist
            /\ frontier' = res.frontier
            /\ UNCHANGED <<pc, raised>>
    /\ UNCHANGED <<A, target_features, max_radius, Q, clusterVars>>

\* The loop that builds Q, and the return.
LocalBuild ==
    /\ pc = "local_bfs"
    /\ frontier = <<>>
    /\ Q' = BuildQ(A, dist, max_radius.val)
    /\ pc' = "local_done"
    /\ UNCHANGED <<A, target_features, max_radius, dist, frontier, raised,
                   clusterVars>>

NextLocal == LocalCall \/ LocalPop \/ LocalBuild

\* Cluster variables while restrict_to_local_graph runs.
ClusterUnused ==
    /\ caller_anchor = ByIndex(0)
    /\ anchor_node = ByIndex(0)
    /\ feature_names = "None"
    /\ remove_targets = TRUE
    /\ adj = EmptyDict
    /\ visited = {}
    /\ component = {}
    /\ queue = <<>>
    /\ results = [b \in BOOLEAN |-> NoResult]

LocalStart ==
    /\ pc = "local_idle"
    /\ dist = EmptyDict
    /\ frontier = <<>>
    /\ Q = EmptyDict
    /\ raised = ""
    /\ ClusterUnused

\* Calls within the documented constraints: in-range targets, radius >= 0.
InitLocal ==
    /\ A \in {MatrixOf(E) : E \in EdgeSets}
    /\ target_features \in {IntArg(t) : t \in Nodes}
                             \cup {ListArg(s) : s \in SeqsUpTo(Nodes, MaxTargets)}
    /\ max_radius \in {Radius(r) : r \in 0 .. MaxRadius}
    /\ LocalStart

Spec == InitLocal /\ [][NextLocal]_vars

\* Calls outside the documented constraints as well: a negative radius, target
\* indices outside [0, p).
InitLocalAny ==
    /\ A \in {MatrixOf(E) : E \in SymEdgeSets}
    /\ target_features \in
          {ListArg(s) : s \in SeqsUpTo(Nodes \cup OutOfRange \cup Wrapping, MaxTargets)}
    /\ max_radius \in {Radius(r) : r \in -1 .. MaxRadius}
    /\ LocalStart

----------------------------------------------------------------------------
\* node_cluster

\* feature_names in list form (position = index, 0-based) and in dict form.
NameTable == <<"f0", "f1", "f2", "f3", "f4", "f5">>
FeatureList == [k \in 1 .. NumNodes |-> NameTable[k]]
FeatureDict == [s \in Range(FeatureList) |-> (CHOOSE k \in 1 .. NumNodes : FeatureList[k] = s) - 1]
AbsentName == "zz"

\* feature_names[anchor_node] on a dict: the value, or KeyError.
DictLookup(s) ==
    IF s \in DOMAIN FeatureDict
    THEN [ok |-> TRUE, idx |-> FeatureDict[s], exc |-> ""]
    ELSE [ok |-> FALSE, idx |-> 0, exc |-> "KeyError"]

\* ListIndex behaving like str.find: -1 for an absent name, no exception.
ListIndexFind(s) ==
    IF \E k \in DOMAIN FeatureList : FeatureList[k] = s
    THEN [ok |-> TRUE, idx |-> Min({k \in DOMAIN FeatureList : FeatureList[k] = s}) - 1,
          exc |-> ""]
    ELSE [ok |-> TRUE, idx |-> -1, exc |-> ""]

\* feature_names.index(anchor_node) on a list: the first 0-based position
\* holding the name, or ValueError.
ListIndex(s) ==
    IF \E k \in DOMAIN FeatureList : FeatureList[k] = s
    THEN [ok |-> TRUE, idx |-> Min({k \in DOMAIN FeatureList : FeatureList[k] = s}) - 1,
          exc |-> ""]
    ELSE [ok |-> FALSE, idx |-> 0, exc |-> "ValueError"]

\* The resolution of anchor_node when it is given by name.
Resolve(a, fn) ==
    IF fn # "None" /\ a.byName
    THEN IF fn = "dict" THEN DictLookup(a.name) ELSE ListIndex(a.name)
    ELSE [ok |-> TRUE, idx |-> a.idx, exc |-> ""]

\* Skipped with the flag inverted.
SkippedInverted(rt, ts, i, j) == ~rt /\ (i \in ts \/ j \in ts)

\* Whether the loop that builds adj skips the key <<i, j>>.
Skipped(rt, ts, i, j) == rt /\ (i \in ts \/ j \in ts)

\* BuildAdj without the line `adj[j].add(i)`.
BuildAdjOneWay(keys, rt, ts) ==
    LET kept == {e \in keys : ~Skipped(rt, ts, e[1], e[2])}
    IN [u \in {e[1] : e \in kept} |-> {e[2] : e \in {x \in kept : x[1] = u}}]

\* adj after the loop over the keys of Q: every key that is not skipped
\* is entered in both directions.
BuildAdj(keys, rt, ts) ==
    LET kept == {e \in keys : ~Skipped(rt, ts, e[1], e[2])}
        ends == {e[1] : e \in kept} \cup {e[2] : e \in kept}
    IN [u \in ends |-> {e[2] : e \in {x \in kept : x[1] = u}}
                         \cup {e[1] : e \in {x \in kept : x[2] = u}}]

\* adj[u] on a defaultdict(set).
AdjOf(a, u) == IF u \in DOMAIN a THEN a[u] ELSE {}

\* AtRadius with > for >=.
AtRadiusLate(d, r) == ~r.isNone /\ d > r.val

\* Whether the popped node, at depth d, is left unexpanded.
AtRadius(d, r) == ~r.isNone /\ d >= r.val

\* The neighbours of u the for loop enqueues.
Unvisited(a, u, vis) == {v \in AdjOf(a, u) : v \notin vis}

\* The orders in which a set may be iterated.
Orders(S) == {s \in [1 .. Cardinality(S) -> S] : Range(s) = S}

\* Entry: anchor resolution, target set, adjacency, and the BFS state.
ClusterCall ==
    /\ pc = "cluster_idle"
    /\ \E rt \in BOOLEAN :
         /\ ~results[rt].returned
         /\ remove_targets' = rt
         /\ LET res == Resolve(caller_anchor, feature_names) IN
            IF ~res.ok
            THEN /\ pc' = "raised"
                 /\ raised' = res.exc
                 /\ anchor_node' = caller_anchor
                 /\ UNCHANGED <<adj, visited, component, queue>>
            ELSE /\ anchor_node' = ByIndex(res.idx)
                 /\ adj' = BuildAdj(DOMAIN Q, rt, Range(target_features.list))
                 /\ visited' = {res.idx}
                 /\ component' = {}
                 /\ queue' = << <<res.idx, 0>> >>
                 /\ pc' = "cluster_bfs"
                 /\ UNCHANGED raised
    /\ UNCHANGED <<localVars, Q, target_features, max_radius, caller_anchor,
                   feature_names, results>>

\* One iteration of the while loop.
ClusterPop ==
    /\ pc = "cluster_bfs"
    /\ queue # <<>>
    /\ LET u == Head(queue)[1]
           d == Head(queue)[2]
       IN /\ component' = component \cup {u}
          /\ IF AtRadius(d, max_radius)
             THEN /\ queue' = Tail(queue)
                  /\ UNCHANGED visited
             ELSE \E order \in Orders(Unvisited(adj, u, visited)) :
                    /\ visited' = visited \cup Range(order)
                    /\ queue' = Tail(queue) \o
                                  [k \in DOMAIN order |-> <<order[k], d + 1>>]
    /\ UNCHANGED <<localVars, Q, target_features, max_radius, caller_anchor,
                   anchor_node, feature_names, remove_targets, adj, pc, raised,
                   results>>

\* return component; the locals of the call are gone.
ClusterReturn ==
    /\ pc = "cluster_bfs"
    /\ queue = <<>>
    /\ results' = [results EXCEPT ![remove_targets] = Returned(component)]
    /\ pc' = "cluster_idle"
    /\ anchor_node' = caller_anchor
    /\ adj' = EmptyDict
    /\ visited' = {}
    /\ component' = {}
    /\ UNCHANGED <<localVars, Q, target_features, max_radius, caller_anchor,
                   feature_names, remove_targets, queue, raised>>

NextCluster == ClusterCall \/ ClusterPop \/ ClusterReturn

\* The anchors a caller may pass: an index, or a name together with
\* feature_names in either form.
AnchorArgs ==
    {<<ByIndex(i), "None">> : i \in Nodes}
      \cup {<<ByName(s), f>> : s \in {FeatureList[NumNodes], AbsentName},
                               f \in {"list", "dict"}}

\* Key sets of an edge dictionary: both directions of every edge, as
\* restrict_to_local_graph writes them, or one direction only.
KeySets == SymEdgeSets \cup SUBSET UPairs

TargetSets == {T \in SUBSET Nodes : Cardinality(T) <= MaxTargets}

ClusterStart ==
    /\ pc = "cluster_idle"
    /\ A = MatrixOf({})
    /\ dist = EmptyDict
    /\ frontier = <<>>
    /\ raised = ""
    /\ anchor_node = caller_anchor
    /\ remove_targets = TRUE
    /\ adj = EmptyDict
    /\ visited = {}
    /\ component = {}
    /\ queue = <<>>
    /\ results = [b \in BOOLEAN |-> NoResult]

\* Calls within the documented constraints: radius None or >= 0.
InitCluster ==
    /\ Q \in {[k \in E |-> 1] : E \in KeySets}
    /\ target_features \in {ListArg(SortedSeq(T)) : T \in TargetSets}
    /\ max_radius \in {NoRadius} \cup {Radius(r) : r \in 0 .. MaxRadius}
    /\ \E a \in AnchorArgs : caller_anchor = a[1] /\ feature_names = a[2]
    /\ ClusterStart

SpecCluster == InitCluster /\ [][NextCluster]_vars

\* Calls of either function, outside the documented constraints as well.
InitClusterAny ==
    /\ Q \in {[k \in E |-> 1] : E \in SymEdgeSets}
    /\ target_features \in {ListArg(SortedSeq(T)) : T \in TargetSets}
    /\ max_radius \in {NoRadius} \cup {Radius(r) : r \in -1 .. MaxRadius}
    /\ \E i \in Nodes : caller_anchor = ByIndex(i) /\ feature_names = "None"
    /\ ClusterStart

SpecAny == (InitLocalAny \/ InitClusterAny) /\ [][NextLocal \/ NextCluster]_vars

----------------------------------------------------------------------------
\* Reference notions the properties are stated with

Infinity == NumNodes + 1

\* The nodes one hop from the set B along the ordered pairs of E.
Successors(E, B) == {e[2] : e \in {x \in E : x[1] \in B}}

RECURSIVE Balls(_, _, _)
\* The sequence whose element k + 1 is the set of nodes within k hops of the
\* set S along the ordered pairs of E, for k = 0 .. m.
Balls(E, S, m) ==
    IF m <= 0 THEN <<S>>
    ELSE LET P == Balls(E, S, m - 1)
         IN Append(P, P[m] \cup Successors(E, P[m]))

\* The nodes within k hops of S along E.
Ball(E, S, k) == Balls(E, S, k)[k + 1]

\* For every node, the least number of hops from S along E, Infinity if
\* there is no path.
DistMap(E, S) ==
    LET B == Balls(E, S, NumNodes)
        least(v) == IF v \in B[NumNodes + 1]
                    THEN Min({k \in 0 .. NumNodes : v \in B[k + 1]})
                    ELSE Infinity
    IN [v \in Nodes |-> least(v)]

\* The targets of the running restrict_to_local_graph call, as a set.
Targets == IF target_features.isInt THEN {target_features.int}
           ELSE Range(target_features.list)

\* Hop distance of every node to the nearest target in the graph of A.
TargetDist == DistMap(EntriesOf(A), Targets)

\* The undirected graph on the keys of Q that node_cluster is documented to
\* traverse when called with remove_targets = rt.
RetainedGraph(rt) ==
    LET ts == Range(target_features.list)
        both == DOMAIN Q \cup {<<e[2], e[1]>> : e \in DOMAIN Q}
    IN {e \in both : ~(rt /\ (e[1] \in ts \/ e[2] \in ts))}

\* The index the caller's anchor denotes.
AnchorIndex ==
    IF caller_anchor.byName
    THEN (CHOOSE k \in 1 .. NumNodes : NameTable[k] = caller_anchor.name) - 1
    ELSE caller_anchor.idx

AnchorNameAbsent ==
    /\ caller_anchor.byName
    /\ feature_names # "None"
    /\ caller_anchor.name \notin Range(FeatureList)

\* Python's LookupError and its subclasses.
LookupErrors == {"LookupError", "KeyError", "IndexError"}

NoDuplicates(s) == \A a, b \in DOMAIN s : a # b => s[a] # s[b]

----------------------------------------------------------------------------
\* Properties of restrict_to_local_graph

\* C1: for a symmetric A, every step of the distance pass leaves every
\* assigned dist value equal to the true hop distance to the nearest target,
\* and never changes or removes a value that was already assigned.
C1_DistIsShortestAndFixed ==
    [][IsSymmetric(A) =>
         /\ \A v \in DOMAIN dist : v \in DOMAIN dist' /\ dist'[v] = dist[v]
         /\ LET D == TargetDist IN \A v \in DOMAIN dist' : dist'[v] = D[v]]_vars

\* C1 witness: a finished pass over a symmetric A that labelled a node two
\* hops from the target, through a node one hop from it.
C1_Witness ==
    /\ pc = "local_done"
    /\ IsSymmetric(A)
    /\ \E u, v \in DOMAIN dist : dist[u] = 1 /\ dist[v] = 2 /\ A[u][v] # 0

\* C2: the returned Q is symmetric in its keys and every value is 1, for
\* every A, symmetric or not.
C2_QSymmetric ==
    pc = "local_done" =>
        /\ \A i, j \in Nodes : (<<i, j>> \in DOMAIN Q) <=> (<<j, i>> \in DOMAIN Q)
        /\ \A k \in DOMAIN Q : Q[k] = 1

\* C2 witness: a returned Q holding a key whose reverse is not an entry of A.
C2_Witness ==
    /\ pc = "local_done"
    /\ \E k \in DOMAIN Q : A[k[1]][k[2]] = 0

\* C3: no key of the returned Q has both endpoints at distance exactly
\* max_radius from the nearest target, and with max_radius = 0 Q is empty.
C3_NoOuterShellEdge ==
    pc = "local_done" =>
        /\ LET D == TargetDist
           IN \A k \in DOMAIN Q :
                 ~(D[k[1]] = max_radius.val /\ D[k[2]] = max_radius.val)
        /\ max_radius.val = 0 => DOMAIN Q = {}

\* C3 witness: a call with radius 0 returned although A joins two targets.
C3_Witness ==
    /\ pc = "local_done"
    /\ max_radius.val = 0
    /\ \E i, j \in Targets : i # j /\ A[i][j] # 0 /\ A[j][i] # 0

\* C9: for a symmetric A the returned Q holds exactly the pairs i # j that
\* are adjacent in A, both within max_radius of a target, and not both at
\* distance exactly max_radius.
C9_QExact ==
    (pc = "local_done" /\ IsSymmetric(A)) =>
        LET D == TargetDist
            r == max_radius.val
        IN \A i, j \in Nodes :
              i # j =>
                ((<<i, j>> \in DOMAIN Q) <=>
                    /\ A[i][j] # 0
                    /\ D[i] <= r
                    /\ D[j] <= r
                    /\ ~(D[i] = r /\ D[j] = r))

\* C9 witness: a returned non-empty Q over a symmetric A that leaves out an
\* edge of A because one endpoint lies beyond the radius.
C9_Witness ==
    /\ pc = "local_done"
    /\ IsSymmetric(A)
    /\ DOMAIN Q # {}
    /\ \E i, j \in Nodes : A[i][j] # 0 /\ TargetDist[i] = max_radius.val
                             /\ TargetDist[j] = max_radius.val + 1

\* C7 as claimed: a call with a target index outside [0, p) and a radius
\* >= 0 never returns an edge map.
C7_OutOfRangeTargetNeverReturns ==
    (/\ pc \in {"local_idle", "local_bfs", "local_done"}
     /\ max_radius.val >= 0
     /\ \E t \in Targets : t \notin 0 .. (n - 1))
      => pc # "local_done"

\* C6 as claimed: a call with a negative radius never returns an edge map
\* or a node set.
C6_NegativeRadiusNeverReturns ==
    (~max_radius.isNone /\ max_radius.val < 0)
      => (pc # "local_done" /\ \A rt \in BOOLEAN : ~results[rt].returned)

----------------------------------------------------------------------------
\* Properties of node_cluster

\* C4: with max_radius = None the returned set is exactly the connected
\* component of the anchor in the retained graph; it holds the anchor, and
\* it is the anchor alone when the anchor is a removed target.
C4_FullComponent ==
    \A rt \in BOOLEAN :
        (results[rt].returned /\ max_radius.isNone) =>
            /\ results[rt].value = Ball(RetainedGraph(rt), {AnchorIndex}, NumNodes)
            /\ AnchorIndex \in results[rt].value
            /\ (rt /\ AnchorIndex \in Range(target_features.list))
                  => results[rt].value = {AnchorIndex}

\* C4 witness: with max_radius = None, a call that removed targets returned
\* a component of two nodes and the call that kept them a larger one.
C4_Witness ==
    /\ max_radius.isNone
    /\ results[TRUE].returned /\ results[FALSE].returned
    /\ Cardinality(results[TRUE].value) = 2
    /\ Cardinality(results[FALSE].value) = 3

\* C5: for the same Q, anchor, targets and radius, the set returned with
\* remove_targets = True is a subset of the one returned with False.
C5_RemoveTargetsShrinks ==
    (results[TRUE].returned /\ results[FALSE].returned)
      => results[TRUE].value \subseteq results[FALSE].value

\* C5 witness: both calls returned, with an integer radius, and removing the
\* targets lost a node.
C5_Witness ==
    /\ ~max_radius.isNone
    /\ results[TRUE].returned /\ results[FALSE].returned
    /\ results[TRUE].value # results[FALSE].value

\* C10: with an integer max_radius = r >= 0, no node is in the queue twice
\* or again after it was popped, every queued depth is the node's hop
\* distance from the anchor, and the returned set is exactly the nodes
\* within r hops of the anchor in the retained graph.
C10_RadiusBall ==
    /\ (pc = "cluster_bfs" /\ ~max_radius.isNone) =>
          LET D == DistMap(RetainedGraph(remove_targets), {AnchorIndex})
          IN /\ NoDuplicates([k \in DOMAIN queue |-> queue[k][1]])
             /\ \A k \in DOMAIN queue :
                   /\ queue[k][1] \notin component
                   /\ queue[k][2] = D[queue[k][1]]
    /\ \A rt \in BOOLEAN :
          (results[rt].returned /\ ~max_radius.isNone) =>
              LET D == DistMap(RetainedGraph(rt), {AnchorIndex})
              IN results[rt].value = {v \in Nodes : D[v] <= max_radius.val}

\* C10 witness: a call with radius 1 returned the anchor and a neighbour and
\* left out a node two hops away.
C10_Witness ==
    /\ ~max_radius.isNone /\ max_radius.val = 1
    /\ results[FALSE].returned
    /\ Cardinality(results[FALSE].value) = 2
    /\ \E v \in Nodes : DistMap(RetainedGraph(FALSE), {AnchorIndex})[v] = 2

\* C8 as claimed: an anchor name absent from the supplied feature_names makes
\* the call fail with a LookupError, in list form and in dict form, and no
\* node set is returned.
C8_AbsentNameRaisesLookupError ==
    AnchorNameAbsent =>
        /\ \A rt \in BOOLEAN : ~results[rt].returned
        /\ pc # "cluster_idle" => (pc = "raised" /\ raised \in LookupErrors)

\* C8 amended: the call fails and returns no node set; the exception is a
\* KeyError in dict form and a ValueError in list form.
C8_AbsentNameRaises ==
    AnchorNameAbsent =>
        /\ \A rt \in BOOLEAN : ~results[rt].returned
        /\ pc # "cluster_idle" =>
              /\ pc = "raised"
              /\ feature_names = "dict" => raised = "KeyError"
              /\ feature_names = "list" => raised = "ValueError"

\* C8 witness: a call with feature_names in list form and an absent anchor
\* name has failed.
C8_Witness ==
    /\ AnchorNameAbsent
    /\ feature_names = "list"
    /\ pc = "raised"

====
